---- MODULE Spec2Model ----
(***************************************************************************)
(* A model of dcyfr-ai-rag: the in-memory vector store (add / update /     *)
(* delete / clear / search with metadata filters), the retrieval pipeline  *)
(* over it (query, findSimilar), the windowing chunkers of the loaders and *)
(* of the ingestion pipeline, and the ingestion pipeline's path loop.      *)
(*                                                                         *)
(* Numbers: embeddings are vectors of small integers.  A score is kept as  *)
(* an exact pair (num, den) whose meaning depends on the metric, and two   *)
(* scores are compared exactly (ScoreLess); floating-point rounding, NaN   *)
(* and infinities are outside the model.                                   *)
(* Strings: a document's content is represented by its length, and a slice *)
(* of it by the half-open range of positions it covers.                    *)
(***************************************************************************)
EXTENDS Integers, Sequences, FiniteSets, TLC

VARIABLES
  config,     \* InMemoryVectorStore.config
  documents,  \* InMemoryVectorStore.documents: a Map in insertion order
  result,     \* the settled promise of the last store call, until consumed
  ck,         \* the chunker run in progress (loader / pipeline chunking)
  ingest,     \* the IngestionPipeline.ingest call in progress
  runs,       \* two IngestionPipeline.ingest calls in progress on one store
  process     \* the EmbeddingPipeline.process call in progress

vars == <<config, documents, result, ck, ingest, runs, process>>

Min(a, b) == IF a < b THEN a ELSE b
Max(a, b) == IF a > b THEN a ELSE b

\* An optional number of a config / options object: absent or given.
NotGiven == [given |-> FALSE, n |-> 0]
Given(n) == [given |-> TRUE, n |-> n]

(***************************************************************************)
(* Metadata values: `unknown` in the source.  One record shape for every   *)
(* JavaScript value the model uses; an array is an object with an identity *)
(* (ref) and elements.                                                     *)
(***************************************************************************)
Undefined == [t |-> "undefined", s |-> "", n |-> 0, ref |-> 0, elems |-> <<>>]
Str(x) == [t |-> "string", s |-> x, n |-> 0, ref |-> 0, elems |-> <<>>]
Num(x) == [t |-> "number", s |-> "", n |-> x, ref |-> 0, elems |-> <<>>]
Arr(r, xs) == [t |-> "array", s |-> "", n |-> 0, ref |-> r, elems |-> xs]

\* JavaScript === : primitives by type and value, objects by identity.
StrictEq(a, b) ==
  /\ a.t = b.t
  /\ CASE a.t = "string" -> a.s = b.s
       [] a.t = "number" -> a.n = b.n
       [] a.t = "array" -> a.ref = b.ref
       [] OTHER -> TRUE

\* Array.prototype.includes (SameValueZero; as === when no NaN is involved).
Includes(arr, v) == \E i \in 1..Len(arr.elems) : StrictEq(arr.elems[i], v)

\* typeof v === 'number'
IsNumber(v) == v.t = "number"

\* The number a relational operator converts its right operand to: the
\* model's strings are not numerals (NaN), undefined is NaN, [] is 0, [x] is
\* Number(String(x)), a longer array is NaN.  A comparison with NaN is false.
NaN == [nan |-> TRUE, n |-> 0]
ToNumber(v) ==
  CASE v.t = "number" -> [nan |-> FALSE, n |-> v.n]
    [] v.t = "array" /\ Len(v.elems) = 0 -> [nan |-> FALSE, n |-> 0]
    [] v.t = "array" /\ Len(v.elems) = 1 /\ v.elems[1].t = "number" ->
         [nan |-> FALSE, n |-> v.elems[1].n]
    [] OTHER -> NaN

(***************************************************************************)
(* Chunks and embeddings.  embedding?: number[] is absent or a vector.     *)
(***************************************************************************)
NoEmbedding == [present |-> FALSE, v |-> <<>>]
Vec(v) == [present |-> TRUE, v |-> v]

Chunk(id, content, metadata, embedding) ==
  [id |-> id, content |-> content, metadata |-> metadata, embedding |-> embedding]

Meta(category, priority, tags) ==
  [category |-> category, priority |-> priority, tags |-> tags]

\* doc.metadata[field]: undefined for a key the map does not hold.
MetaGet(metadata, field) ==
  IF field \in DOMAIN metadata THEN metadata[field] ELSE Undefined

(***************************************************************************)
(* Map<string, DocumentChunk>: entries in insertion order; set() on a key  *)
(* the map holds replaces the value in place, delete() removes the entry.  *)
(***************************************************************************)
MapKeys(m) == {m[i].key : i \in 1..Len(m)}
MapHas(m, k) == k \in MapKeys(m)
MapIndex(m, k) == CHOOSE i \in 1..Len(m) : m[i].key = k
MapGet(m, k) == m[MapIndex(m, k)].doc

MapSetAppendAlways(m, k, d) == Append(m, [key |-> k, doc |-> d])

MapSet(m, k, d) ==
  IF MapHas(m, k)
    THEN [m EXCEPT ![MapIndex(m, k)] = [key |-> k, doc |-> d]]
    ELSE Append(m, [key |-> k, doc |-> d])

MapDelete(m, k) == SelectSeq(m, LAMBDA e : e.key # k)

(***************************************************************************)
(* addDocuments: validate and insert chunk by chunk; the first invalid     *)
(* chunk throws and ends the loop.                                         *)
(***************************************************************************)
RECURSIVE addLoop(_, _, _, _)
addLoop(cfg, m, batch, i) ==
  IF i > Len(batch) THEN [documents |-> m, status |-> "ok"]
  ELSE LET doc == batch[i] IN
    IF ~doc.embedding.present
      THEN [documents |-> m, status |-> "MissingEmbedding"]
    ELSE IF Len(doc.embedding.v) # cfg.embeddingDimensions
      THEN [documents |-> m, status |-> "DimensionMismatch"]
    ELSE addLoop(cfg, MapSet(m, doc.id, doc), batch, i + 1)

addDocuments(cfg, m, batch) == addLoop(cfg, m, batch, 1)

(***************************************************************************)
(* Similarity metrics.  The loops run over the indices of the first        *)
(* vector (the query); the model only scores stored vectors at least as    *)
(* long as the query.                                                      *)
(***************************************************************************)
RECURSIVE dotLoop(_, _, _)
dotLoop(a, b, i) ==
  IF i > Len(a) THEN 0 ELSE a[i] * b[i] + dotLoop(a, b, i + 1)

dotProduct(a, b) == dotLoop(a, b, 1)

RECURSIVE sqDiffLoop(_, _, _)
sqDiffLoop(a, b, i) ==
  IF i > Len(a) THEN 0
  ELSE (a[i] - b[i]) * (a[i] - b[i]) + sqDiffLoop(a, b, i + 1)

\* euclideanDistance(a, b) = sqrt(euclideanSquared(a, b))
euclideanSquared(a, b) == sqDiffLoop(a, b, 1)

\* The sums of squares accumulate over the query's indices for both vectors.
Prefix(b, n) == SubSeq(b, 1, n)

\* The quotient without the magnitude test: 0 / sqrt(0) for a zero vector.
cosineUnguarded(a, b) ==
  LET magnitudeA == dotProduct(a, a)
      magnitudeB == dotProduct(Prefix(b, Len(a)), Prefix(b, Len(a)))
  IN [num |-> dotProduct(a, b), den |-> magnitudeA * magnitudeB]

\* cosineSimilarity(a, b) = num / sqrt(den); 0 when the magnitude is 0.
cosineSimilarity(a, b) ==
  LET d == dotProduct(a, b)
      magnitudeA == dotProduct(a, a)
      magnitudeB == dotProduct(Prefix(b, Len(a)), Prefix(b, Len(a)))
  IN IF magnitudeA * magnitudeB = 0
       THEN [num |-> 0, den |-> 1]
       ELSE [num |-> d, den |-> magnitudeA * magnitudeB]

\* calculateSimilarity: the score, as (num, den):
\*   cosine     num / sqrt(den)
\*   dot        num                (den = 1)
\*   euclidean  1 / (1 + sqrt(num))  (den = 1)
calculateSimilarity(cfg, a, b) ==
  IF cfg.distanceMetric = "cosine" THEN cosineSimilarity(a, b)
  ELSE IF cfg.distanceMetric = "dot" THEN [num |-> dotProduct(a, b), den |-> 1]
  ELSE [num |-> euclideanSquared(a, b), den |-> 1]

\* calculateDistance: the distance, as (num, den):
\*   euclidean  sqrt(num)             (den = 1)
\*   cosine     1 - num / sqrt(den)
\*   dot        -num                  (den = 1)
calculateDistance(cfg, a, b) ==
  IF cfg.distanceMetric = "euclidean" THEN [num |-> euclideanSquared(a, b), den |-> 1]
  ELSE IF cfg.distanceMetric = "cosine" THEN cosineSimilarity(a, b)
  ELSE [num |-> dotProduct(a, b), den |-> 1]

Sq(x) == x * x

\* s1 < s2 as real numbers, for two scores of the same metric.
ScoreLess(metric, s1, s2) ==
  IF metric = "cosine" THEN
    IF s1.num < 0 /\ s2.num >= 0 THEN TRUE
    ELSE IF s1.num >= 0 /\ s2.num < 0 THEN FALSE
    ELSE IF s1.num >= 0 THEN Sq(s1.num) * s2.den < Sq(s2.num) * s1.den
    ELSE Sq(s1.num) * s2.den > Sq(s2.num) * s1.den
  ELSE IF metric = "dot" THEN s1.num < s2.num
  ELSE s1.num > s2.num

(***************************************************************************)
(* matchesFilter.  A filter is {field, operator, value}; a composite       *)
(* filter {operator, filters} has no field, so filter.field is undefined   *)
(* and the metadata lookup yields undefined.                               *)
(***************************************************************************)
NoField == "undefined"

Leaf(field, operator, value) ==
  [field |-> field, operator |-> operator, value |-> value, filters |-> <<>>]

Composite(operator, filters) ==
  [field |-> NoField, operator |-> operator, value |-> Undefined, filters |-> filters]

\* search called without a filter argument.
NoFilter == [field |-> NoField, operator |-> "", value |-> Undefined, filters |-> <<>>]

\* a > b, a >= b, a < b, a <= b for a number a and a converted operand b.
NumCompare(operator, a, b) ==
  /\ ~b.nan
  /\ CASE operator = "gt" -> a > b.n
       [] operator = "gte" -> a >= b.n
       [] operator = "lt" -> a < b.n
       [] OTHER -> a <= b.n

matchesFilterNeAsEq(doc, filter) ==
  LET value == MetaGet(doc.metadata, filter.field) IN
  CASE filter.operator \in {"eq", "ne"} -> StrictEq(value, filter.value)
    [] filter.operator \in {"in", "nin"} ->
         filter.value.t = "array" /\ Includes(filter.value, value)
    [] OTHER -> FALSE

matchesFilterNoTypeCheck(doc, filter) ==
  LET value == MetaGet(doc.metadata, filter.field) IN
  CASE filter.operator = "eq" -> StrictEq(value, filter.value)
    [] filter.operator = "ne" -> ~StrictEq(value, filter.value)
    [] filter.operator = "gt" -> value.n > ToNumber(filter.value).n
    [] filter.operator = "gte" -> value.n >= ToNumber(filter.value).n
    [] filter.operator = "lt" -> value.n < ToNumber(filter.value).n
    [] filter.operator = "lte" -> value.n <= ToNumber(filter.value).n
    [] filter.operator = "in" -> Includes(filter.value, value)
    [] filter.operator = "nin" -> ~Includes(filter.value, value)
    [] OTHER -> FALSE

matchesFilter(doc, filter) ==
  LET value == MetaGet(doc.metadata, filter.field) IN
  CASE filter.operator = "eq" -> StrictEq(value, filter.value)
    [] filter.operator = "ne" -> ~StrictEq(value, filter.value)
    [] filter.operator = "gt" ->
         IsNumber(value) /\ NumCompare("gt", value.n, ToNumber(filter.value))
    [] filter.operator = "gte" ->
         IsNumber(value) /\ NumCompare("gte", value.n, ToNumber(filter.value))
    [] filter.operator = "lt" ->
         IsNumber(value) /\ NumCompare("lt", value.n, ToNumber(filter.value))
    [] filter.operator = "lte" ->
         IsNumber(value) /\ NumCompare("lte", value.n, ToNumber(filter.value))
    [] filter.operator = "in" ->
         filter.value.t = "array" /\ Includes(filter.value, value)
    [] filter.operator = "nin" ->
         filter.value.t = "array" /\ ~Includes(filter.value, value)
    [] OTHER -> FALSE

(***************************************************************************)
(* search: scan the map in insertion order, keep the chunks that pass the  *)
(* filter and have an embedding, sort by score descending (Array.sort is   *)
(* stable: ties keep scan order), slice(0, limit).                         *)
(***************************************************************************)
RECURSIVE scanLoop(_, _, _, _, _)
scanLoop(cfg, m, query, filter, i) ==
  IF i > Len(m) THEN <<>>
  ELSE LET doc == m[i].doc
           rest == scanLoop(cfg, m, query, filter, i + 1)
       IN IF filter # NoFilter /\ ~matchesFilter(doc, filter) THEN rest
          ELSE IF ~doc.embedding.present THEN rest
          ELSE <<[document |-> doc,
                  score |-> calculateSimilarity(cfg, query, doc.embedding.v),
                  distance |-> calculateDistance(cfg, query, doc.embedding.v)]>> \o rest

\* Where a stable descending sort puts r among the already sorted rs:
\* before the first entry whose score is lower than r's.
InsertPos(metric, rs, r) ==
  IF \E j \in 1..Len(rs) : ScoreLess(metric, rs[j].score, r.score)
    THEN CHOOSE j \in 1..Len(rs) :
           /\ ScoreLess(metric, rs[j].score, r.score)
           /\ \A k \in 1..(j - 1) : ~ScoreLess(metric, rs[k].score, r.score)
    ELSE Len(rs) + 1

InsertAt(rs, j, r) == SubSeq(rs, 1, j - 1) \o <<r>> \o SubSeq(rs, j, Len(rs))

RECURSIVE sortLoop(_, _, _)
sortLoop(metric, rs, i) ==
  IF i = 0 THEN <<>>
  ELSE LET sorted == sortLoop(metric, rs, i - 1)
       IN InsertAt(sorted, InsertPos(metric, sorted, rs[i]), rs[i])

sortUnsorted(metric, rs) == rs

sortByScoreDesc(metric, rs) == sortLoop(metric, rs, Len(rs))

slice0(rs, limit) == SubSeq(rs, 1, Min(limit, Len(rs)))

search(cfg, m, query, limit, filter) ==
  slice0(sortByScoreDesc(cfg.distanceMetric, scanLoop(cfg, m, query, filter, 1)), limit)

(***************************************************************************)
(* updateDocument: { ...existing, ...update }.  A partial is the set of    *)
(* keys it holds (has) and their values (val).                             *)
(***************************************************************************)
ChunkFields == {"id", "content", "metadata", "embedding"}

\* A merge that goes into the metadata map key by key.
mergeMetadataKeys(existing, update) ==
  [f \in ChunkFields |->
     IF f \notin update.has THEN existing[f]
     ELSE IF f # "metadata" THEN update.val[f]
     ELSE [k \in DOMAIN existing[f] |->
             IF MetaGet(update.val[f], k) = Undefined THEN existing[f][k]
             ELSE update.val[f][k]]]

shallowMerge(existing, update) ==
  [f \in ChunkFields |-> IF f \in update.has THEN update.val[f] ELSE existing[f]]

updateDocument(m, id, update) ==
  IF ~MapHas(m, id)
    THEN [documents |-> m, status |-> "NotFound"]
    ELSE [documents |-> MapSet(m, id, shallowMerge(MapGet(m, id), update)),
          status |-> "ok"]

RECURSIVE deleteLoop(_, _, _)
deleteLoop(m, ids, i) ==
  IF i > Len(ids) THEN m ELSE deleteLoop(MapDelete(m, ids[i]), ids, i + 1)

deleteFirstListed(m, ids) == MapDelete(m, ids[1])

deleteDocuments(m, ids) == deleteLoop(m, ids, 1)

getDocument(m, id) == IF MapHas(m, id) THEN MapGet(m, id) ELSE "null"

(***************************************************************************)
(* RetrievalPipeline.  A threshold is a rational p / q with q > 0.         *)
(***************************************************************************)
DefaultLimit == 10

Rational(p, q) == [p |-> p, q |-> q]

\* score >= threshold, as real numbers.
ScoreAtLeast(metric, s, t) ==
  IF metric = "cosine" THEN
    LET l == t.q * s.num IN
    IF l >= 0 /\ t.p <= 0 THEN TRUE
    ELSE IF l < 0 /\ t.p >= 0 THEN FALSE
    ELSE IF l >= 0 THEN Sq(l) >= Sq(t.p) * s.den
    ELSE Sq(l) <= Sq(t.p) * s.den
  ELSE IF metric = "dot" THEN t.q * s.num >= t.p
  ELSE t.p <= 0 \/ (t.q - t.p >= 0 /\ Sq(t.q - t.p) >= Sq(t.p) * s.num)

filterNothing(metric, rs, threshold) == rs

\* searchResults.filter((result) => result.score >= threshold)
filterByThreshold(metric, rs, threshold) ==
  SelectSeq(rs, LAMBDA r : ScoreAtLeast(metric, r.score, threshold))

excludeNothing(rs, documentId) == rs

\* searchResults.filter((result) => result.document.id !== documentId)
excludeSelf(rs, documentId) == SelectSeq(rs, LAMBDA r : r.document.id # documentId)

\* const { limit = 10, ... } = options ?? {}
LimitOf(options) == IF options.limit.given THEN options.limit.n ELSE DefaultLimit

\* What a retrieval call settles to; `searched` tells whether store.search
\* was called.
Retrieved(status, results, searched) ==
  [status |-> status, results |-> results, totalResults |-> Len(results),
   searched |-> searched]

\* RetrievalPipeline.query; embedded is what embedder.embed([query]) did.
pipelineQuery(cfg, m, embedded, options) ==
  IF embedded.threw THEN Retrieved("EmbedderError", <<>>, FALSE)
  ELSE
    LET searchResults == search(cfg, m, embedded.v, LimitOf(options), options.filter)
    IN Retrieved("ok",
                 filterByThreshold(cfg.distanceMetric, searchResults, options.threshold),
                 TRUE)

findSimilarUnchecked(cfg, m, documentId, options) ==
  IF ~MapHas(m, documentId) THEN Retrieved("NotFound", <<>>, FALSE)
  ELSE
    LET searchResults == search(cfg, m, MapGet(m, documentId).embedding.v,
                                LimitOf(options) + 1, options.filter)
    IN Retrieved("ok",
                 slice0(filterByThreshold(cfg.distanceMetric,
                                          excludeSelf(searchResults, documentId),
                                          options.threshold),
                        LimitOf(options)),
                 TRUE)

findSimilar(cfg, m, documentId, options) ==
  IF ~MapHas(m, documentId) THEN Retrieved("NotFound", <<>>, FALSE)
  ELSE IF ~MapGet(m, documentId).embedding.present
    THEN Retrieved("NoEmbedding", <<>>, FALSE)
  ELSE
    LET searchResults == search(cfg, m, MapGet(m, documentId).embedding.v,
                                LimitOf(options) + 1, options.filter)
    IN Retrieved("ok",
                 slice0(filterByThreshold(cfg.distanceMetric,
                                          excludeSelf(searchResults, documentId),
                                          options.threshold),
                        LimitOf(options)),
                 TRUE)

(***************************************************************************)
(* The inputs of the store calls.                                          *)
(***************************************************************************)
MaxBatch == 2    \* chunks per addDocuments call
MaxLimit == 2    \* search limit
MaxDelete == 2   \* ids per deleteDocuments call

Ids == {"a", "b", "c"}
Dims == {2}
Metrics == {"cosine", "dot", "euclidean"}

TooLong == Vec(<<1, 0, 1>>)

\* The metadata the callers give each chunk id; a field holding Undefined
\* reads like a field the map does not hold.
MetaOf(id) ==
  CASE id = "a" -> Meta(Str("A"), Num(1), Arr(1, <<Str("x")>>))
    [] id = "b" -> Meta(Str("B"), Num(2), Undefined)
    [] OTHER -> Meta(Str("A"), Str("high"), Arr(2, <<Str("x")>>))

EmbeddingsOf(id) ==
  CASE id = "a" -> {Vec(<<1, 0>>), Vec(<<1, 1>>)}
    [] id = "b" -> {Vec(<<1, 1>>), Vec(<<0, 0>>)}
    [] OTHER -> {Vec(<<1, 0>>), Vec(<<0, 0>>)}

ValidChunks ==
  UNION {{Chunk(id, "x", MetaOf(id), e) : e \in EmbeddingsOf(id)} : id \in Ids}

InvalidChunks ==
  {Chunk("a", "x", MetaOf("a"), NoEmbedding), Chunk("b", "x", MetaOf("b"), TooLong)}

SeqsUpTo(S, n) == UNION {[1..k -> S] : k \in 1..n}

Batches == SeqsUpTo(ValidChunks \cup InvalidChunks, MaxBatch)

Partial(field, value) ==
  [has |-> {field}, val |-> [f \in ChunkFields |-> IF f = field THEN value ELSE ""]]

Partials ==
  {Partial("embedding", NoEmbedding), Partial("embedding", TooLong),
   Partial("embedding", Vec(<<1, 1>>))}

Queries == {<<1, 0>>, <<-1, 1>>, <<0, 0>>}
Limits == 0..MaxLimit

LeafFilters ==
  {Leaf("category", "eq", Str("A")),
   Leaf("category", "ne", Str("A")),
   Leaf("category", "in", Arr(7, <<Str("A")>>)),
   Leaf("category", "nin", Arr(7, <<Str("A")>>)),
   Leaf("category", "in", Str("A")),
   Leaf("category", "nin", Str("A")),
   Leaf("priority", "gt", Num(1)),
   Leaf("priority", "gte", Num(1)),
   Leaf("priority", "lt", Num(2)),
   Leaf("priority", "lte", Str("high")),
   Leaf("rating", "gte", Num(0)),
   Leaf("category", "unknown", Str("A")),
   Leaf("tags", "eq", Arr(8, <<Str("x")>>)),
   Leaf("tags", "ne", Arr(1, <<Str("x")>>))}

CompositeFilters ==
  {Composite("and", <<Leaf("category", "eq", Str("A")), Leaf("priority", "gte", Num(1))>>),
   Composite("or", <<Leaf("category", "eq", Str("B")), Leaf("priority", "gte", Num(1))>>)}

Filters == {NoFilter} \cup LeafFilters \cup CompositeFilters

(***************************************************************************)
(* The store's calls.  Each is one step: the whole async method runs to    *)
(* its return or throw, and `result` holds the settled promise until the   *)
(* caller takes it (Return).                                               *)
(***************************************************************************)
NoResult == [op |-> "none", status |-> "", arg |-> <<>>, out |-> <<>>]

NoChunker == [pc |-> "idle"]

NoIngest == [pc |-> "idle"]

NoRuns == <<NoIngest, NoIngest>>

NoProcess == [pc |-> "idle"]

Init ==
  /\ config \in [embeddingDimensions : Dims, distanceMetric : Metrics]
  /\ documents = <<>>
  /\ result = NoResult
  /\ ck = NoChunker
  /\ ingest = NoIngest
  /\ runs = NoRuns
  /\ process = NoProcess

AddDocuments ==
  /\ result = NoResult
  /\ \E batch \in Batches :
       LET r == addDocuments(config, documents, batch) IN
         /\ documents' = r.documents
         /\ result' = [op |-> "addDocuments", status |-> r.status,
                       arg |-> batch, out |-> <<>>]
  /\ UNCHANGED <<config, ck, ingest, runs, process>>

Search ==
  /\ result = NoResult
  /\ \E query \in Queries, limit \in Limits, filter \in Filters :
       result' = [op |-> "search", status |-> "ok",
                  arg |-> [query |-> query, limit |-> limit, filter |-> filter],
                  out |-> search(config, documents, query, limit, filter)]
  /\ UNCHANGED <<config, documents, ck, ingest, runs, process>>

UpdateDocument ==
  /\ result = NoResult
  /\ \E id \in Ids, update \in Partials :
       LET r == updateDocument(documents, id, update) IN
         /\ documents' = r.documents
         /\ result' = [op |-> "updateDocument", status |-> r.status,
                       arg |-> [id |-> id, update |-> update], out |-> <<>>]
  /\ UNCHANGED <<config, ck, ingest, runs, process>>

DeleteDocuments ==
  /\ result = NoResult
  /\ \E ids \in SeqsUpTo(Ids, MaxDelete) :
       /\ documents' = deleteDocuments(documents, ids)
       /\ result' = [op |-> "deleteDocuments", status |-> "ok",
                     arg |-> ids,
                     \* not a value of the call: the entries it removed
                     out |-> <<Len(documents) - Len(deleteDocuments(documents, ids))>>]
  /\ UNCHANGED <<config, ck, ingest, runs, process>>

GetDocument ==
  /\ result = NoResult
  /\ \E id \in Ids :
       result' = [op |-> "getDocument", status |-> "ok",
                  arg |-> id, out |-> getDocument(documents, id)]
  /\ UNCHANGED <<config, documents, ck, ingest, runs, process>>

Clear ==
  /\ result = NoResult
  /\ documents' = <<>>
  /\ result' = [op |-> "clear", status |-> "ok", arg |-> <<>>, out |-> <<>>]
  /\ UNCHANGED <<config, ck, ingest, runs, process>>

Return ==
  /\ result # NoResult
  /\ result' = NoResult
  /\ UNCHANGED <<config, documents, ck, ingest, runs, process>>

\* QueryOptions: limit (default 10), filter, threshold (default 0.0).
Thresholds == {Rational(0, 1), Rational(1, 1)}

RetrievalOptions ==
  [limit : {NotGiven} \cup {Given(n) : n \in 1..MaxLimit},
   filter : {NoFilter, Leaf("category", "eq", Str("A"))},
   threshold : Thresholds]

\* embedder.embed([query]): throws or returns the query's vector.
Embedded(v) == [threw |-> FALSE, v |-> v]
EmbedThrew == [threw |-> TRUE, v |-> <<>>]

\* Every stored vector has a component for each index of the query, so
\* every score is a number.
Scorable(m, v) ==
  \A i \in 1..Len(m) :
    m[i].doc.embedding.present => Len(m[i].doc.embedding.v) >= Len(v)

Query ==
  /\ result = NoResult
  /\ \E embedded \in {EmbedThrew} \cup {Embedded(v) : v \in Queries},
        options \in RetrievalOptions :
       LET r == pipelineQuery(config, documents, embedded, options) IN
         result' = [op |-> "query", status |-> r.status,
                    arg |-> [embedded |-> embedded, options |-> options],
                    out |-> r]
  /\ UNCHANGED <<config, documents, ck, ingest, runs, process>>

\* The model follows findSimilar on a chunk whose vector is longer than a
\* stored one (NaN scores) only up to the checks before the search.
FindSimilar ==
  /\ result = NoResult
  /\ \E documentId \in Ids, options \in RetrievalOptions :
       /\ (MapHas(documents, documentId)
             /\ MapGet(documents, documentId).embedding.present)
            => Scorable(documents, MapGet(documents, documentId).embedding.v)
       /\ LET r == findSimilar(config, documents, documentId, options) IN
            result' = [op |-> "findSimilar", status |-> r.status,
                       arg |-> [documentId |-> documentId, options |-> options],
                       out |-> r]
  /\ UNCHANGED <<config, documents, ck, ingest, runs, process>>

Next ==
  \/ Query
  \/ FindSimilar
  \/ AddDocuments
  \/ Search
  \/ UpdateDocument
  \/ DeleteDocuments
  \/ GetDocument
  \/ Clear
  \/ Return

Spec == Init /\ [][Next]_vars

(***************************************************************************)
(* Properties of the vector store.                                         *)
(***************************************************************************)
IsCall(op) == result.op = op
Called(op) == result = NoResult /\ result'.op = op

InvalidChunk(doc) ==
  \/ ~doc.embedding.present
  \/ Len(doc.embedding.v) # config.embeddingDimensions

StoredIndexes == 1..Len(documents)
Stored(i) == documents[i].doc

\* C1: an addDocuments call whose batch holds an invalid chunk (embedding
\* absent or of the wrong length), at any position, fails and leaves the
\* store exactly as it was before the call.
C1_RejectBeforeInsert ==
  [][(Called("addDocuments")
        /\ \E i \in 1..Len(result'.arg) : InvalidChunk(result'.arg[i]))
      => (result'.status # "ok" /\ documents' = documents)]_vars

\* C2: in every reachable state every stored chunk has an embedding whose
\* length is the embeddingDimensions fixed at construction.
C2_StoredDimensions ==
  \A i \in StoredIndexes :
    /\ Stored(i).embedding.present
    /\ Len(Stored(i).embedding.v) = config.embeddingDimensions

\* The stored chunks search ranks for a filter: those that pass it and have
\* an embedding.
Candidates(filter) ==
  {i \in StoredIndexes :
     /\ filter = NoFilter \/ matchesFilter(Stored(i), filter)
     /\ Stored(i).embedding.present}

ScoreOf(query, i) == calculateSimilarity(config, query, Stored(i).embedding.v)
ScoreLeq(s1, s2) == ~ScoreLess(config.distanceMetric, s2, s1)
Returned(out) == {out[j].document.id : j \in 1..Len(out)}

StructEq(a, b) ==
  /\ a.t = b.t
  /\ CASE a.t = "string" -> a.s = b.s
       [] a.t = "number" -> a.n = b.n
       [] a.t = "array" ->
            /\ Len(a.elems) = Len(b.elems)
            /\ \A i \in 1..Len(a.elems) : StrictEq(a.elems[i], b.elems[i])
       [] OTHER -> TRUE

\* What an eq / ne / in / nin leaf filter asks of a stored value, for a given
\* notion of equality.
LeafSatisfied(Eq(_, _), value, filter) ==
  CASE filter.operator = "eq" -> Eq(value, filter.value)
    [] filter.operator = "ne" -> ~Eq(value, filter.value)
    [] filter.operator = "in" ->
         \E i \in 1..Len(filter.value.elems) : Eq(filter.value.elems[i], value)
    [] OTHER ->
         ~\E i \in 1..Len(filter.value.elems) : Eq(filter.value.elems[i], value)

IsEqualityLeaf(filter) ==
  /\ filter \in LeafFilters
  /\ \/ filter.operator \in {"eq", "ne"}
     \/ filter.operator \in {"in", "nin"} /\ filter.value.t = "array"

\* The search result is exactly the satisfying chunks, up to the limit.
ReturnsTheSatisfying(Eq(_, _)) ==
  (IsCall("search") /\ IsEqualityLeaf(result.arg.filter)) =>
    LET filter == result.arg.filter
        sat == {i \in StoredIndexes :
                  /\ Stored(i).embedding.present
                  /\ LeafSatisfied(Eq, MetaGet(Stored(i).metadata, filter.field), filter)}
    IN /\ Returned(result.out) \subseteq {Stored(i).id : i \in sat}
       /\ Len(result.out) = Min(result.arg.limit, Cardinality(sat))

\* C4 (as stated): with an eq / ne / in / nin leaf filter, search returns only
\* chunks whose metadata satisfies the filter and omits none of them up to
\* the limit, eq / ne comparing by structural equality.
C4_StructuralEquality == ReturnsTheSatisfying(StructEq)

\* C4 (amended): the same, eq / ne / in / nin comparing by strict equality
\* (===): strings and numbers by value, arrays by identity.
C4_StrictEquality == ReturnsTheSatisfying(StrictEq)

C4_Witness ==
  /\ IsCall("search")
  /\ result.arg.filter = Leaf("category", "eq", Str("A"))
  /\ Len(result.out) >= 1
  /\ \E i \in StoredIndexes :
       /\ Stored(i).embedding.present
       /\ Stored(i).metadata.category = Str("B")

KnownOperators == {"eq", "ne", "gt", "gte", "lt", "lte", "in", "nin"}

\* The filter is one the evaluator must fail closed on, for this chunk.
FailsClosed(doc, filter) ==
  \/ /\ filter.operator \in {"gt", "gte", "lt", "lte"}
     /\ MetaGet(doc.metadata, filter.field).t # "number"
  \/ /\ filter.operator \in {"in", "nin"}
     /\ filter.value.t # "array"
  \/ filter.operator \notin KnownOperators

\* C5: a gt/gte/lt/lte filter on a non-numeric or absent stored value, an
\* in/nin filter whose value is no sequence and a filter with an unknown
\* operator exclude the chunk from the results, and search raises no error.
C5_FailClosed ==
  (IsCall("search") /\ result.arg.filter \in LeafFilters) =>
    /\ result.status = "ok"
    /\ \A i \in StoredIndexes :
         FailsClosed(Stored(i), result.arg.filter) =>
           Stored(i).id \notin Returned(result.out)

C5_Witness ==
  /\ IsCall("search")
  /\ result.arg.filter = Leaf("priority", "lt", Num(2))
  /\ Len(result.out) = 1
  /\ \E i \in StoredIndexes :
       /\ Stored(i).embedding.present
       /\ Stored(i).metadata.priority = Str("high")

\* A composite filter evaluated recursively over its children.
RECURSIVE CompositeSatisfied(_, _)
CompositeSatisfied(doc, filter) ==
  CASE filter.operator = "and" ->
         \A i \in 1..Len(filter.filters) : CompositeSatisfied(doc, filter.filters[i])
    [] filter.operator = "or" ->
         \E i \in 1..Len(filter.filters) : CompositeSatisfied(doc, filter.filters[i])
    [] OTHER -> matchesFilter(doc, filter)

\* C6: search with a composite and / or filter returns the chunks for which
\* every child (and) or at least one child (or) matches.
C6_CompositeFilters ==
  (IsCall("search") /\ result.arg.filter \in CompositeFilters) =>
    LET sat == {i \in StoredIndexes :
                  /\ Stored(i).embedding.present
                  /\ CompositeSatisfied(Stored(i), result.arg.filter)}
    IN /\ Returned(result.out) \subseteq {Stored(i).id : i \in sat}
       /\ Len(result.out) = Min(result.arg.limit, Cardinality(sat))

\* C7: addDocuments([c]) with a valid c replaces the chunk stored under c.id
\* and keeps the size, or adds c and grows the size by one; afterwards
\* getDocument(c.id) is c, and a second addDocuments([c]) changes nothing.
C7_Upsert ==
  [][(Called("addDocuments") /\ Len(result'.arg) = 1 /\ ~InvalidChunk(result'.arg[1]))
      => LET c == result'.arg[1] IN
           /\ result'.status = "ok"
           /\ MapHas(documents, c.id) => Len(documents') = Len(documents)
           /\ ~MapHas(documents, c.id) => Len(documents') = Len(documents) + 1
           /\ getDocument(documents', c.id) = c
           /\ addDocuments(config, documents', <<c>>) =
                [documents |-> documents', status |-> "ok"]]_vars

\* A one-chunk call on an id stored before the call: the chunk is not the
\* newest entry of the map, so the call replaced it in place.
C7_Witness ==
  /\ IsCall("addDocuments")
  /\ result.status = "ok"
  /\ Len(result.arg) = 1
  /\ Len(documents) = 2
  /\ documents[1].key = result.arg[1].id
  /\ documents[1].doc = result.arg[1]

(***************************************************************************)
(* Chunkers.  A content is its length; content.slice(s, e) is the range of *)
(* positions it keeps.  A metadata object is the set of keys it holds      *)
(* (has) and their values (val, 0 for a key it does not hold).             *)
(***************************************************************************)
MaxLen == 5        \* content length given to a loader's chunker
MaxChunkSize == 3  \* config.chunkSize
MaxOverlap == 3    \* config.chunkOverlap
MaxBlocks == 10    \* content length given to the pipeline, in overlaps
MaxSections == 2   \* sections of a Markdown document

DefaultChunkOverlap == 200
IngestChunkSize == 1000
IngestOverlap == 200

\* A loop that never ends is followed this far.
MaxChunks == MaxLen + 2

MetaKeys == {"chunkIndex", "chunkCount", "startChar", "endChar"}

MetaObj(pairs) ==
  [has |-> DOMAIN pairs,
   val |-> [k \in MetaKeys |-> IF k \in DOMAIN pairs THEN pairs[k] ELSE 0]]

EmptyMeta == [has |-> {}, val |-> [k \in MetaKeys |-> 0]]

\* { ...a, ...b }
Spread(a, b) ==
  [has |-> a.has \cup b.has,
   val |-> [k \in MetaKeys |-> IF k \in b.has THEN b.val[k] ELSE a.val[k]]]

\* String.prototype.slice(s, e) on a content of length len: a negative index
\* counts from the end, every index is clamped to 0..len.
SliceIndex(len, i) == IF i < 0 THEN Max(len + i, 0) ELSE Min(i, len)
Slice(len, s, e) ==
  LET from == SliceIndex(len, s)
      to == SliceIndex(len, e)
  IN [from |-> from, to |-> Max(from, to)]

\* config.chunkOverlap ?? 200
OrDefault(overlap) == IF overlap.given THEN overlap.n ELSE DefaultChunkOverlap

OverlapConfigs == {NotGiven} \cup {Given(n) : n \in -1..MaxOverlap}
ChunkSizes == 1..MaxChunkSize

\* document.metadata as a loader builds it, without and with a caller's
\* config.metadata that uses a chunk key.
LoaderDocMetas == {EmptyMeta, MetaObj([startChar |-> 4])}

\* doc.metadata of a document the pipeline's loader returns: a whole
\* document, or the second chunk a loader cut with chunkSize 1000.
IngestDocMetas ==
  {EmptyMeta, MetaObj([chunkIndex |-> 1, startChar |-> 800, endChar |-> 1500])}

IngestLens == {k * IngestOverlap + r : k \in 0..MaxBlocks, r \in {0, 1}}

Run(who, len, chunkSize, overlap, chunkOverlap, docMeta) ==
  [pc |-> "loop", who |-> who, len |-> len, chunkSize |-> chunkSize,
   overlap |-> overlap, chunkOverlap |-> chunkOverlap, docMeta |-> docMeta,
   start |-> 0, chunkIndex |-> 0, chunks |-> <<>>, sections |-> <<>>]

\* TextLoader: Math.min(config.chunkOverlap ?? 200, chunkSize - 1)
clampOverlap(overlap, chunkSize) == Min(OrDefault(overlap), chunkSize - 1)

\* An iteration that moves the window by chunkSize, leaving no overlap.
loaderIterationNoOverlap(c) ==
  LET end == Min(c.start + c.chunkSize, c.len)
      chunk == [id |-> c.chunkIndex,
                content |-> Slice(c.len, c.start, end),
                metadata |-> Spread(c.docMeta,
                                    MetaObj([chunkIndex |-> c.chunkIndex,
                                             startChar |-> c.start,
                                             endChar |-> end]))]
  IN [c EXCEPT !.chunks = Append(@, chunk),
               !.start = @ + c.chunkSize,
               !.chunkIndex = @ + 1]

\* One iteration of the while loop of TextLoader / HTMLLoader chunkDocument.
loaderIteration(c) ==
  LET end == Min(c.start + c.chunkSize, c.len)
      chunk == [id |-> c.chunkIndex,
                content |-> Slice(c.len, c.start, end),
                metadata |-> Spread(c.docMeta,
                                    MetaObj([chunkIndex |-> c.chunkIndex,
                                             startChar |-> c.start,
                                             endChar |-> end]))]
  IN [c EXCEPT !.chunks = Append(@, chunk),
               !.start = @ + c.chunkSize - c.chunkOverlap,
               !.chunkIndex = @ + 1]

\* One iteration of the while loop of MarkdownLoader.chunkText.
chunkTextIteration(c) ==
  LET end == Min(c.start + c.chunkSize, c.len)
  IN [c EXCEPT !.chunks = Append(@, [content |-> Slice(c.len, c.start, end)]),
               !.start = @ + c.chunkSize - c.chunkOverlap]

ownMetadata(c) ==
  MetaObj([chunkIndex |-> Len(c.chunks),
           chunkCount |-> 0,
           startChar |-> c.start,
           endChar |-> Min(c.start + c.chunkSize, c.len)])

\* { chunkIndex, chunkCount: 0, startChar, endChar, ...doc.metadata }
ingestMetadata(c) == Spread(ownMetadata(c), c.docMeta)

\* One iteration of the for loop of IngestionPipeline.chunkDocument.
ingestIteration(c) ==
  LET chunk == [id |-> Len(c.chunks),
                index |-> Len(c.chunks),
                content |-> Slice(c.len, c.start, c.start + c.chunkSize),
                metadata |-> ingestMetadata(c)]
  IN [c EXCEPT !.chunks = Append(@, chunk),
               !.start = @ + c.chunkSize - c.chunkOverlap]

\* chunk.metadata.chunkCount = chunks.length, for every chunk
stampChunkCount(chunks) ==
  [j \in 1..Len(chunks) |->
     [chunks[j] EXCEPT !.metadata =
        Spread(@, MetaObj([chunkCount |-> Len(chunks)]))]]

TextChunkDocument ==
  /\ ck.pc = "idle"
  /\ \E len \in 1..MaxLen, chunkSize \in ChunkSizes,
        overlap \in OverlapConfigs, docMeta \in LoaderDocMetas :
       ck' = Run("TextLoader", len, chunkSize, overlap,
                 clampOverlap(overlap, chunkSize), docMeta)
  /\ UNCHANGED <<config, documents, result, ingest, runs, process>>

HTMLChunkDocument ==
  /\ ck.pc = "idle"
  /\ \E len \in 0..MaxLen, chunkSize \in ChunkSizes,
        overlap \in OverlapConfigs, docMeta \in LoaderDocMetas :
       ck' = Run("HTMLLoader", len, chunkSize, overlap, OrDefault(overlap), docMeta)
  /\ UNCHANGED <<config, documents, result, ingest, runs, process>>

\* chunkBySection calls chunkText for a section longer than chunkSize.
MarkdownChunkText ==
  /\ ck.pc = "idle"
  /\ \E len \in 1..MaxLen, chunkSize \in ChunkSizes, overlap \in OverlapConfigs :
       /\ len > chunkSize
       /\ ck' = Run("MarkdownLoader", len, chunkSize, overlap,
                    OrDefault(overlap), EmptyMeta)
  /\ UNCHANGED <<config, documents, result, ingest, runs, process>>

IngestChunkDocument ==
  /\ ck.pc = "idle"
  /\ \E len \in IngestLens, docMeta \in IngestDocMetas :
       ck' = Run("IngestionPipeline", len, IngestChunkSize, Given(IngestOverlap),
                 IngestOverlap, docMeta)
  /\ UNCHANGED <<config, documents, result, ingest, runs, process>>

\* MarkdownLoader.chunkText, for a configuration its loop ends with.
RECURSIVE chunkTextLoop(_)
chunkTextLoop(c) ==
  IF c.start < c.len THEN chunkTextLoop(chunkTextIteration(c)) ELSE c.chunks

chunkText(len, chunkSize, overlap) ==
  chunkTextLoop(Run("MarkdownLoader", len, chunkSize, overlap,
                    OrDefault(overlap), EmptyMeta))

\* subChunks.forEach((chunk, subIndex) => chunks.push(...)) for the section
\* at index: the id is `${document.id}-${index}-${subIndex}`, the content
\* a range of that section, chunkIndex the length of chunks at the push.
RECURSIVE pushSubChunks(_, _, _, _, _)
pushSubChunks(docMeta, index, subChunks, subIndex, chunks) ==
  IF subIndex >= Len(subChunks) THEN chunks
  ELSE pushSubChunks(docMeta, index, subChunks, subIndex + 1,
         Append(chunks,
                [id |-> <<index, subIndex>>,
                 section |-> index,
                 content |-> subChunks[subIndex + 1].content,
                 metadata |-> Spread(docMeta,
                                     MetaObj([chunkIndex |-> Len(chunks)]))]))

\* sections.forEach((section, index) => ...) of chunkBySection; a section
\* is the length of its content.
RECURSIVE sectionLoop(_, _, _, _, _, _)
sectionLoop(docMeta, sections, chunkSize, overlap, index, chunks) ==
  IF index >= Len(sections) THEN chunks
  ELSE LET len == sections[index + 1] IN
    sectionLoop(docMeta, sections, chunkSize, overlap, index + 1,
      IF len > chunkSize
        THEN pushSubChunks(docMeta, index, chunkText(len, chunkSize, overlap), 0, chunks)
        ELSE Append(chunks,
                    [id |-> <<index>>,
                     section |-> index,
                     content |-> [from |-> 0, to |-> len],
                     metadata |-> Spread(docMeta,
                                         MetaObj([chunkIndex |-> index]))]))

chunkBySection(docMeta, sections, chunkSize, overlap) ==
  sectionLoop(docMeta, sections, chunkSize, overlap, 0, <<>>)

\* splitByHeadings keeps the sections whose content is not blank.
SectionLists ==
  UNION {[1..n -> 1..MaxLen] : n \in 1..MaxSections}

\* MarkdownLoader.load with config.chunkSize: chunkBySection runs to its
\* end in one step.  It returns only when every chunkText call does, that
\* is, with an overlap below chunkSize.
MarkdownChunkBySection ==
  /\ ck.pc = "idle"
  /\ \E sections \in SectionLists, chunkSize \in ChunkSizes,
        overlap \in OverlapConfigs, docMeta \in LoaderDocMetas :
       /\ OrDefault(overlap) < chunkSize
       /\ ck' = [Run("MarkdownSections", 0, chunkSize, overlap,
                     OrDefault(overlap), docMeta)
                   EXCEPT !.pc = "done",
                          !.sections = sections,
                          !.chunks = chunkBySection(docMeta, sections, chunkSize, overlap)]
  /\ UNCHANGED <<config, documents, result, ingest, runs, process>>

Loaders == {"TextLoader", "HTMLLoader"}

LoaderLoop ==
  /\ ck.pc = "loop"
  /\ ck.who \in Loaders
  /\ ck.start < ck.len
  /\ Len(ck.chunks) < MaxChunks
  /\ ck' = loaderIteration(ck)
  /\ UNCHANGED <<config, documents, result, ingest, runs, process>>

MarkdownLoop ==
  /\ ck.pc = "loop"
  /\ ck.who = "MarkdownLoader"
  /\ ck.start < ck.len
  /\ Len(ck.chunks) < MaxChunks
  /\ ck' = chunkTextIteration(ck)
  /\ UNCHANGED <<config, documents, result, ingest, runs, process>>

IngestLoop ==
  /\ ck.pc = "loop"
  /\ ck.who = "IngestionPipeline"
  /\ ck.start < ck.len
  /\ ck' = ingestIteration(ck)
  /\ UNCHANGED <<config, documents, result, ingest, runs, process>>

\* The loop condition fails: the chunker returns its chunks (the pipeline's
\* after the chunkCount pass).
ChunkReturn ==
  /\ ck.pc = "loop"
  /\ ~(ck.start < ck.len)
  /\ ck' = [ck EXCEPT !.pc = "done",
                      !.chunks = IF ck.who = "IngestionPipeline"
                                   THEN stampChunkCount(@) ELSE @]
  /\ UNCHANGED <<config, documents, result, ingest, runs, process>>

ChunkTaken ==
  /\ ck.pc = "done"
  /\ ck' = NoChunker
  /\ UNCHANGED <<config, documents, result, ingest, runs, process>>

ChunkInit ==
  /\ config = [embeddingDimensions |-> 2, distanceMetric |-> "cosine"]
  /\ documents = <<>>
  /\ result = NoResult
  /\ ck = NoChunker
  /\ ingest = NoIngest
  /\ runs = NoRuns
  /\ process = NoProcess

ChunkStep ==
  \/ TextChunkDocument
  \/ HTMLChunkDocument
  \/ MarkdownChunkText
  \/ MarkdownChunkBySection
  \/ IngestChunkDocument
  \/ LoaderLoop
  \/ MarkdownLoop
  \/ IngestLoop
  \/ ChunkReturn
  \/ ChunkTaken

ChunkSpec == ChunkInit /\ [][ChunkStep]_vars

(***************************************************************************)
(* Properties of the chunkers.                                             *)
(***************************************************************************)
Chunking(whos) == ck.pc = "loop" /\ ck.who \in whos
Chunked(whos) == ck.pc = "done" /\ ck.who \in whos

\* The request satisfies 0 <= chunkOverlap < chunkSize.
OverlapInRange == 0 <= OrDefault(ck.overlap) /\ OrDefault(ck.overlap) < ck.chunkSize

\* C8: for chunkSize > 0 and any chunkOverlap (also >= chunkSize, and the
\* default 200 with a chunkSize of 200 or less) the chunkers of TextLoader,
\* HTMLLoader and MarkdownLoader use an effective overlap of at most
\* chunkSize - 1, so every chunk moves the window start forward by at least
\* one character.
C8_WindowAdvances ==
  [][(Chunking(Loaders \cup {"MarkdownLoader"})
        /\ ck.chunkSize > 0
        /\ ck'.pc = "loop"
        /\ Len(ck'.chunks) = Len(ck.chunks) + 1)
      => (ck.chunkOverlap <= ck.chunkSize - 1 /\ ck'.start >= ck.start + 1)]_vars

StartChar(chunk) == chunk.metadata.val["startChar"]
EndChar(chunk) == chunk.metadata.val["endChar"]

\* The chunks record ranges in increasing order, each chunk's content is
\* the range it records, and the ranges cover [0, len) with no gap.
CoversContent(chunks, len) ==
  /\ \A j \in 1..Len(chunks) :
       /\ {"startChar", "endChar"} \subseteq chunks[j].metadata.has
       /\ chunks[j].content = [from |-> StartChar(chunks[j]), to |-> EndChar(chunks[j])]
  /\ \A j \in 1..(Len(chunks) - 1) :
       /\ StartChar(chunks[j]) < StartChar(chunks[j + 1])
       /\ StartChar(chunks[j + 1]) <= EndChar(chunks[j])
  /\ len = 0 => chunks = <<>>
  /\ len > 0 =>
       /\ chunks # <<>>
       /\ StartChar(chunks[1]) = 0
       /\ EndChar(chunks[Len(chunks)]) = len

\* C9: for 0 <= O < S the chunks of TextLoader / HTMLLoader chunkDocument and
\* of IngestionPipeline.chunkDocument (S = 1000, O = 200) have increasing
\* [startChar, endChar) ranges, contents equal to those ranges of the
\* content, and ranges whose union is [0, len).
C9_ChunkCoverage ==
  (Chunked(Loaders \cup {"IngestionPipeline"}) /\ OverlapInRange)
    => CoversContent(ck.chunks, ck.len)

\* C10: for a non-empty content with len <= S and 0 <= O < S, chunking gives
\* exactly one chunk, with chunkIndex 0, startChar 0 and endChar len.
C10_SingleChunk ==
  (Chunked(Loaders \cup {"IngestionPipeline"}) /\ OverlapInRange
     /\ 1 <= ck.len /\ ck.len <= ck.chunkSize)
    => /\ Len(ck.chunks) = 1
       /\ ck.chunks[1].metadata.val["chunkIndex"] = 0
       /\ StartChar(ck.chunks[1]) = 0
       /\ EndChar(ck.chunks[1]) = ck.len

(***************************************************************************)
(* Document ids.  A source path is its sequence of UTF-8 bytes;            *)
(* Buffer.from(source).toString('base64') is the sequence of 6-bit digits  *)
(* of the bytes taken three at a time, padded with '=' (written 64);       *)
(* generateId keeps the first 16 characters of it.  An id is the sequence   *)
(* of its symbols: 101 stands for the prefix "text-", 100 for "-chunk-".   *)
(***************************************************************************)
IdChars == 16

RECURSIVE Base64(_)
Base64(bytes) ==
  IF Len(bytes) = 0 THEN <<>>
  ELSE IF Len(bytes) = 1 THEN
    <<bytes[1] \div 4, (bytes[1] % 4) * 16, 64, 64>>
  ELSE IF Len(bytes) = 2 THEN
    <<bytes[1] \div 4,
      (bytes[1] % 4) * 16 + bytes[2] \div 16,
      (bytes[2] % 16) * 4,
      64>>
  ELSE
    <<bytes[1] \div 4,
      (bytes[1] % 4) * 16 + bytes[2] \div 16,
      (bytes[2] % 16) * 4 + bytes[3] \div 64,
      bytes[3] % 64>> \o Base64(SubSeq(bytes, 4, Len(bytes)))

\* Array / String slice(s, e) on a sequence.
SliceSeq(seq, s, e) ==
  LET r == Slice(Len(seq), s, e) IN SubSeq(seq, r.from + 1, r.to)

\* `text-${Buffer.from(source, 'utf-8').toString('base64').slice(0, 16)}`
generateId(source) == <<101>> \o SliceSeq(Base64(source), 0, IdChars)

\* "/data/corpus/", "a.txt", "b.txt"
DirBytes == <<47, 100, 97, 116, 97, 47, 99, 111, 114, 112, 117, 115, 47>>
FileA == <<97, 46, 116, 120, 116>>
FileB == <<98, 46, 116, 120, 116>>

Paths == {DirBytes \o FileA, DirBytes \o FileB, FileB}

(***************************************************************************)
(* IngestionPipeline.  The loader, the embedder and the progress callback  *)
(* are the caller's: each call returns or throws.  The store is the        *)
(* in-memory store above.                                                  *)
(***************************************************************************)
MaxPaths == 2     \* paths per ingest call
MaxRounds == 3    \* iterations of the batch loop followed for one path

DefaultBatchSize == 32

Doc(id, len) == [id |-> id, content |-> len, metadata |-> EmptyMeta]

\* `${id}-chunk-${n}`
ChunkId(id, n) == id \o <<100, n>>

\* What loader.load(path) does: throws, or returns no document (blank
\* content), the document of the file, or the documents a loader configured
\* with a chunkSize cuts it into.
Loaded(docs) == [threw |-> FALSE, docs |-> docs]
LoadThrew == [threw |-> TRUE, docs |-> <<>>]

LoadOutcomes(path) ==
  LET id == generateId(path) IN
  {LoadThrew, Loaded(<<>>), Loaded(<<Doc(id, 1)>>), Loaded(<<Doc(id, 801)>>),
   Loaded(<<Doc(ChunkId(id, 0), 1), Doc(ChunkId(id, 1), 1)>>)}

\* What embedder.embed(texts) does: throws, returns one vector per text,
\* or returns one vector too few.
EmbedOutcomes == {"throws", "vectors", "short"}

embed(n, outcome) ==
  IF outcome = "short" THEN [k \in 1..(n - 1) |-> Vec(<<1, 0>>)]
  ELSE [k \in 1..n |-> Vec(<<1, 0>>)]

\* chunkDocument as a function: the for loop run to its end, then the
\* chunkCount pass.
RECURSIVE chunkLoop(_)
chunkLoop(c) ==
  IF c.start < c.len THEN chunkLoop(ingestIteration(c)) ELSE stampChunkCount(c.chunks)

chunkDocument(doc) ==
  LET chunks == chunkLoop(Run("IngestionPipeline", doc.content, IngestChunkSize,
                              Given(IngestOverlap), IngestOverlap, doc.metadata))
  IN [k \in 1..Len(chunks) |->
        [id |-> ChunkId(doc.id, chunks[k].id),
         documentId |-> doc.id,
         content |-> chunks[k].content,
         index |-> chunks[k].index,
         metadata |-> chunks[k].metadata,
         embedding |-> NoEmbedding]]

RECURSIVE chunkAll(_, _)
chunkAll(batch, i) ==
  IF i > Len(batch) THEN <<>> ELSE chunkDocument(batch[i]) \o chunkAll(batch, i + 1)

\* One embedder call per chunk.
embedPerChunk(chunks) == [k \in 1..Len(chunks) |-> 1]

\* The embedder calls of processDocuments, each as the number of texts it
\* carries: one call with chunks.map((chunk) => chunk.content).
embedCalls(chunks) == <<Len(chunks)>>

\* processDocuments: chunk every document, embed the contents in one call,
\* chunks[i].embedding = embeddings[i] (undefined past the end).
processDocuments(batch, outcome) ==
  LET chunks == chunkAll(batch, 1)
      embeddings == embed(Len(chunks), outcome)
  IN IF outcome = "throws"
       THEN [status |-> "EmbedderError", chunks |-> <<>>,
             embedCalls |-> embedCalls(chunks)]
     ELSE [status |-> "ok",
           chunks |-> [k \in 1..Len(chunks) |->
                         [chunks[k] EXCEPT !.embedding =
                            IF k <= Len(embeddings) THEN embeddings[k]
                            ELSE NoEmbedding]],
           embedCalls |-> embedCalls(chunks)]

\* `calls` keeps the calls a run made to its loader, its embedder and the
\* store, in order: the path index, and for an embedder call the batch it
\* was made for (its offset j and its documents) and the number of texts.
CallRecord(call, g, batch, texts) ==
  [call |-> call, path |-> g.i, j |-> g.j, batch |-> batch, texts |-> texts]

LoaderCall(g) == CallRecord("load", [g EXCEPT !.j = 0], <<>>, 0)
StoreCall(g) == CallRecord("addDocuments", [g EXCEPT !.j = 0], <<>>, Len(g.allChunks))
EmbedderCalls(g, batch, texts) ==
  [k \in 1..Len(texts) |-> CallRecord("embed", g, batch, texts[k])]

ChunkIds(chunks) == {chunks[k].id : k \in 1..Len(chunks)}

\* The end of one iteration of the path loop.  `log` keeps, per path, what
\* the iteration did: the documents loaded, the chunks built, the outcome.
nextPath(g, failed) ==
  [g EXCEPT !.pc = "path",
            !.i = @ + 1,
            !.log = Append(@, [loaded |-> Len(g.docs),
                               chunks |-> ChunkIds(g.allChunks),
                               failed |-> failed])]

catchErrorAbort(g, message) ==
  [nextPath([g EXCEPT !.errors = Append(@, [file |-> g.paths[g.i], error |-> message])],
            TRUE) EXCEPT !.i = Len(g.paths) + 1]

\* catch (error) { errors.push({ file: path, error: message }) }
catchError(g, message) ==
  nextPath([g EXCEPT !.errors = Append(@, [file |-> g.paths[g.i], error |-> message])],
           TRUE)

\* options.batchSize: not given (32) or a number.
BatchSizes == {NotGiven, Given(-1), Given(0), Given(1)}

PathLists == SeqsUpTo(Paths, MaxPaths)

\* Array.isArray(filePaths) ? filePaths : [filePaths]
AsPaths(isArray, filePaths) == IF isArray THEN filePaths ELSE <<filePaths>>

\* ingest(filePaths, options) up to the path loop.
startIngest(paths, batchSize, onProgress) ==
  [pc |-> "path",
   paths |-> paths,
   options |-> [batchSize |-> batchSize, onProgress |-> onProgress],
   batchSize |-> IF batchSize.given THEN batchSize.n ELSE DefaultBatchSize,
   i |-> 1, docs |-> <<>>, j |-> 0, rounds |-> 0,
   allChunks |-> <<>>,
   totalDocuments |-> 0, totalChunks |-> 0,
   errors |-> <<>>, log |-> <<>>, calls |-> <<>>]

IngestCall ==
  /\ ingest.pc = "idle"
  /\ \E isArray \in BOOLEAN, batchSize \in BatchSizes, onProgress \in BOOLEAN :
     \E filePaths \in IF isArray THEN PathLists ELSE Paths :
       ingest' = startIngest(AsPaths(isArray, filePaths), batchSize, onProgress)
  /\ UNCHANGED <<config, documents, result, ck, runs, process>>

\* const documents = await this.loader.load(path, loaderConfig)
loadStep(g, outcome) ==
  LET called == [g EXCEPT !.calls = Append(@, LoaderCall(g))] IN
  IF outcome.threw
    THEN catchError([called EXCEPT !.docs = <<>>, !.allChunks = <<>>],
                    "LoaderError")
    ELSE [called EXCEPT !.pc = "batch",
                        !.docs = outcome.docs,
                        !.totalDocuments = @ + Len(outcome.docs),
                        !.allChunks = <<>>,
                        !.j = 0,
                        !.rounds = 0]

IngestLoad ==
  /\ ingest.pc = "path"
  /\ ingest.i <= Len(ingest.paths)
  /\ \E outcome \in LoadOutcomes(ingest.paths[ingest.i]) :
       ingest' = loadStep(ingest, outcome)
  /\ UNCHANGED <<config, documents, result, ck, runs, process>>

\* One iteration of the batch loop: processDocuments, push, onProgress.
batchIteration(g, embedded, progressThrows) ==
  LET batch == SliceSeq(g.docs, g.j, g.j + g.batchSize)
      r == processDocuments(batch, embedded)
      called == [g EXCEPT !.calls = @ \o EmbedderCalls(g, batch, r.embedCalls)]
      pushed == [called EXCEPT !.allChunks = @ \o r.chunks]
  IN IF r.status # "ok" THEN catchError(called, r.status)
     ELSE IF g.options.onProgress /\ progressThrows
       THEN catchError(pushed, "ProgressError")
     ELSE [pushed EXCEPT !.j = @ + g.batchSize, !.rounds = @ + 1]

IngestBatch ==
  /\ ingest.pc = "batch"
  /\ ingest.j < Len(ingest.docs)
  /\ ingest.rounds < MaxRounds
  /\ \E embedded \in EmbedOutcomes, progressThrows \in BOOLEAN :
       ingest' = batchIteration(ingest, embedded, progressThrows)
  /\ UNCHANGED <<config, documents, result, ck, runs, process>>

\* await this.store.addDocuments(allChunks); totalChunks += allChunks.length
storeStep(cfg, m, g) ==
  LET r == addDocuments(cfg, m, g.allChunks)
      called == [g EXCEPT !.calls = Append(@, StoreCall(g))]
  IN [documents |-> r.documents,
      run |-> IF r.status = "ok"
                THEN nextPath([called EXCEPT !.totalChunks = @ + Len(g.allChunks)],
                              FALSE)
                ELSE catchError(called, r.status)]

IngestStore ==
  /\ ingest.pc = "batch"
  /\ ~(ingest.j < Len(ingest.docs))
  /\ LET r == storeStep(config, documents, ingest) IN
       /\ documents' = r.documents
       /\ ingest' = r.run
  /\ UNCHANGED <<config, result, ck, runs, process>>

\* return { documentsProcessed, chunksGenerated, errors, durationMs }
IngestReturn ==
  /\ ingest.pc = "path"
  /\ ~(ingest.i <= Len(ingest.paths))
  /\ ingest' = [ingest EXCEPT !.pc = "returned"]
  /\ UNCHANGED <<config, documents, result, ck, runs, process>>

IngestInit ==
  /\ config = [embeddingDimensions |-> 2, distanceMetric |-> "cosine"]
  /\ documents = <<>>
  /\ result = NoResult
  /\ ck = NoChunker
  /\ ingest = NoIngest
  /\ runs = NoRuns
  /\ process = NoProcess

IngestNext ==
  \/ IngestCall
  \/ IngestLoad
  \/ IngestBatch
  \/ IngestStore
  \/ IngestReturn

IngestSpec == IngestInit /\ [][IngestNext]_vars

(***************************************************************************)
(* Properties of ingest.                                                   *)
(***************************************************************************)
Ingesting == ingest.pc # "idle"
Ingested == ingest.pc = "returned"

\* The positions of the paths whose iteration ended in the catch block.
FailedPaths == {k \in 1..Len(ingest.log) : ingest.log[k].failed}

\* The position of the m-th failed path.
NthFailed(m) ==
  CHOOSE k \in FailedPaths : Cardinality({l \in FailedPaths : l <= k}) = m

\* C11: whatever the loader, the embedder, the store and the progress
\* callback do, ingest ends by returning; each path whose processing threw
\* has exactly one errors entry {file: path, error: message}, the entries
\* are in path order, and every path of the list is processed.  With a
\* batchSize of at least 1 (or the default) the batch loop of a path ends
\* within one round per document.
C11_ErrorsPerFailedPath ==
  Ingesting =>
    /\ Len(ingest.errors) = Cardinality(FailedPaths)
    /\ \A m \in 1..Len(ingest.errors) :
         ingest.errors[m].file = ingest.paths[NthFailed(m)]
    /\ Len(ingest.log) = ingest.i - 1
    /\ Ingested => Len(ingest.log) = Len(ingest.paths)
    /\ (ingest.pc = "batch" /\ ingest.batchSize >= 1) =>
         /\ ingest.j = ingest.rounds * ingest.batchSize
         /\ ingest.rounds <= Len(ingest.docs)

\* A run of two paths returned: the first path failed after its documents
\* were loaded, the second was still processed and its chunks are stored.
C11_Witness ==
  /\ Ingested
  /\ Len(ingest.paths) = 2
  /\ ingest.log[1].failed /\ ingest.log[1].loaded > 0
  /\ ~ingest.log[2].failed /\ ingest.log[2].chunks # {}
  /\ ingest.log[2].chunks \subseteq MapKeys(documents)
  /\ Len(ingest.errors) = 1

\* The sum of counts[k] over the paths that did not fail.
RECURSIVE SumSucceeded(_, _, _)
SumSucceeded(log, counts, k) ==
  IF k = 0 THEN 0
  ELSE SumSucceeded(log, counts, k - 1) + (IF log[k].failed THEN 0 ELSE counts[k])

\* C12: documentsProcessed counts the documents loaded from the paths with
\* no errors entry, chunksGenerated the chunks of those paths.
C12_CountersOfSucceededPaths ==
  Ingested =>
    LET log == ingest.log
        loaded == [k \in 1..Len(log) |-> log[k].loaded]
        built == [k \in 1..Len(log) |-> Cardinality(log[k].chunks)]
    IN /\ ingest.totalDocuments = SumSucceeded(log, loaded, Len(log))
       /\ ingest.totalChunks = SumSucceeded(log, built, Len(log))

\* C13: for each path the store holds none or all of the chunks built for
\* it, and none when the path ended with an errors entry.
C13_AllOrNothingPerPath ==
  Ingesting =>
    \A k \in 1..Len(ingest.log) :
      LET built == ingest.log[k].chunks
          stored == built \cap MapKeys(documents)
      IN /\ stored = {} \/ stored = built
         /\ ingest.log[k].failed => stored = {}

\* C14: distinct source paths get distinct document ids, and the chunks
\* built for distinct paths have distinct ids.
C14_DistinctIds ==
  Ingesting =>
    \A k, l \in 1..Len(ingest.paths) :
      ingest.paths[k] # ingest.paths[l] =>
        /\ generateId(ingest.paths[k]) # generateId(ingest.paths[l])
        /\ (k <= Len(ingest.log) /\ l <= Len(ingest.log)) =>
             ingest.log[k].chunks \cap ingest.log[l].chunks = {}

\* options.batchSize is a number below 1.
MalformedOptions ==
  ingest.options.batchSize.given /\ ingest.options.batchSize.n < 1

\* C15: ingest called with a batchSize of 0 or a negative batchSize throws
\* before any loader, embedder or store call: no path is loaded or
\* processed and the call does not return a result.
C15_MalformedOptionsThrow ==
  (Ingesting /\ MalformedOptions) =>
    /\ ingest.pc \notin {"batch", "returned"}
    /\ ingest.log = <<>>

(***************************************************************************)
(* updateDocument with every shape of partial: any subset of content,      *)
(* metadata and embedding, or a new id.                                    *)
(***************************************************************************)
NewValue(field) ==
  CASE field = "content" -> "y"
    [] field = "metadata" -> Meta(Str("C"), Undefined, Undefined)
    [] field = "embedding" -> Vec(<<0, 1>>)
    [] OTHER -> "b"

PartialOf(fields) ==
  [has |-> fields,
   val |-> [f \in ChunkFields |-> IF f \in fields THEN NewValue(f) ELSE ""]]

AnyPartials ==
  {PartialOf(fields) : fields \in SUBSET {"content", "metadata", "embedding"}}
    \cup {PartialOf({"id"})}

SeedIds == {"a", "b"}

\* addDocuments([chunk]) with the chunk the callers first store under an id.
SeedDocument ==
  /\ result = NoResult
  /\ \E id \in SeedIds :
       LET batch == <<Chunk(id, "x", MetaOf(id), Vec(<<1, 0>>))>>
           r == addDocuments(config, documents, batch)
       IN /\ documents' = r.documents
          /\ result' = [op |-> "addDocuments", status |-> r.status,
                        arg |-> batch, out |-> <<>>]
  /\ UNCHANGED <<config, ck, ingest, runs, process>>

UpdateAnyDocument ==
  /\ result = NoResult
  /\ \E id \in Ids, update \in AnyPartials :
       LET r == updateDocument(documents, id, update) IN
         /\ documents' = r.documents
         /\ result' = [op |-> "updateDocument", status |-> r.status,
                       arg |-> [id |-> id, update |-> update], out |-> <<>>]
  /\ UNCHANGED <<config, ck, ingest, runs, process>>

UpdateInit ==
  /\ config = [embeddingDimensions |-> 2, distanceMetric |-> "cosine"]
  /\ documents = <<>>
  /\ result = NoResult
  /\ ck = NoChunker
  /\ ingest = NoIngest
  /\ runs = NoRuns
  /\ process = NoProcess

UpdateNext ==
  \/ SeedDocument
  \/ UpdateAnyDocument
  \/ Return

UpdateSpec == UpdateInit /\ [][UpdateNext]_vars

\* C16: updateDocument(id, partial) on an id the store does not hold fails
\* with NotFound and changes nothing; otherwise the chunk under id becomes
\* the old chunk with every field the partial holds taken from the partial
\* (a metadata map as a whole), and the keys, their order, the size and
\* every other entry stay as they were.
C16_UpdateMergesShallow ==
  [][Called("updateDocument") =>
       LET id == result'.arg.id
           update == result'.arg.update
       IN IF ~MapHas(documents, id)
            THEN result'.status = "NotFound" /\ documents' = documents
            ELSE /\ result'.status = "ok"
                 /\ Len(documents') = Len(documents)
                 /\ \A i \in 1..Len(documents) :
                      /\ documents'[i].key = documents[i].key
                      /\ documents[i].key # id => documents'[i] = documents[i]
                 /\ \A f \in ChunkFields :
                      MapGet(documents', id)[f] =
                        IF f \in update.has THEN update.val[f]
                        ELSE MapGet(documents, id)[f]]_vars

\* An update of content and metadata on one of two stored chunks: the
\* chunk holds the new content and the new map, which has no priority and
\* no tags, and keeps its embedding.
C16_Witness ==
  /\ IsCall("updateDocument")
  /\ result.status = "ok"
  /\ result.arg.update.has = {"content", "metadata"}
  /\ Len(documents) = 2
  /\ MapGet(documents, result.arg.id).content = "y"
  /\ MapGet(documents, result.arg.id).metadata = NewValue("metadata")
  /\ MapGet(documents, result.arg.id).embedding = Vec(<<1, 0>>)

\* C17: deleteDocuments(ids) succeeds whether or not the ids are stored;
\* afterwards getDocument is null for every listed id, the chunks under the
\* other ids are the same entries in the same order, and the same call
\* again changes nothing.
C17_DeleteIsIdempotent ==
  [][Called("deleteDocuments") =>
       LET ids == result'.arg
           listed == {ids[k] : k \in 1..Len(ids)}
       IN /\ result'.status = "ok"
          /\ \A id \in listed :
               ~MapHas(documents', id) /\ getDocument(documents', id) = "null"
          /\ documents' = SelectSeq(documents, LAMBDA e : e.key \notin listed)
          /\ deleteDocuments(documents', ids) = documents']_vars

\* A call listing two different ids removed exactly one entry (the other
\* id was not stored) and left a chunk in the store.
C17_Witness ==
  /\ IsCall("deleteDocuments")
  /\ Len(result.arg) = 2
  /\ result.arg[1] # result.arg[2]
  /\ result.out = <<1>>
  /\ Len(documents) >= 1

\* The positions of rs whose score is at least the threshold.
Kept(rs, threshold) ==
  {i \in 1..Len(rs) : ScoreAtLeast(config.distanceMetric, rs[i].score, threshold)}

\* The position in rs of the m-th kept entry.
NthKept(rs, threshold, m) ==
  CHOOSE i \in Kept(rs, threshold) :
    Cardinality({j \in Kept(rs, threshold) : j <= i}) = m

\* C18: the results of query are the entries of
\* store.search(queryEmbedding, limit, filter) whose score is at least the
\* threshold, in the order of the search; so there are at most limit of
\* them, each has score >= threshold, and totalResults is their number.
C18_QueryAppliesThreshold ==
  (IsCall("query") /\ result.status = "ok") =>
    LET options == result.arg.options
        searched == search(config, documents, result.arg.embedded.v,
                           LimitOf(options), options.filter)
        results == result.out.results
    IN /\ Len(results) = Cardinality(Kept(searched, options.threshold))
       /\ \A m \in 1..Len(results) :
            results[m] = searched[NthKept(searched, options.threshold, m)]
       /\ Len(results) <= LimitOf(options)
       /\ Kept(results, options.threshold) = 1..Len(results)
       /\ result.out.totalResults = Len(results)

\* A query with threshold 1 under the cosine metric: the search found two
\* chunks, the one with score exactly 1 is returned, the other is dropped.
C18_Witness ==
  /\ IsCall("query")
  /\ result.status = "ok"
  /\ config.distanceMetric = "cosine"
  /\ result.arg.options.threshold = Rational(1, 1)
  /\ Len(search(config, documents, result.arg.embedded.v,
                LimitOf(result.arg.options), result.arg.options.filter)) = 2
  /\ Len(result.out.results) = 1
  /\ result.out.results[1].score = [num |-> 1, den |-> 1]

\* C19: the results of findSimilar(X.id, options) on a stored chunk X with
\* an embedding hold no chunk whose id is X.id, and at most limit entries.
C19_FindSimilarExcludesSelf ==
  (IsCall("findSimilar") /\ result.status = "ok") =>
    /\ \A m \in 1..Len(result.out.results) :
         result.out.results[m].document.id # result.arg.documentId
    /\ Len(result.out.results) <= LimitOf(result.arg.options)

\* findSimilar with limit 1 whose search (limit 2) returned the chunk
\* itself first and another chunk second: the other chunk is the result.
C19_Witness ==
  /\ IsCall("findSimilar")
  /\ result.status = "ok"
  /\ result.arg.options.limit = Given(1)
  /\ LET searched == search(config, documents,
                            MapGet(documents, result.arg.documentId).embedding.v,
                            2, result.arg.options.filter)
     IN /\ Len(searched) = 2
        /\ searched[1].document.id = result.arg.documentId
        /\ result.out.results = <<searched[2]>>

ZeroMagnitude(v) == dotProduct(v, v) = 0
ScoreZero == [num |-> 0, den |-> 1]
DistanceOne == [num |-> 0, den |-> 1]

C22_ChunkMetadataInvariant ==
  Chunked({"IngestionPipeline"}) =>
    \A j \in 1..Len(ck.chunks) :
      LET m == ck.chunks[j].metadata IN
        /\ MetaKeys \subseteq m.has
        /\ m.val["chunkIndex"] = j - 1
        /\ m.val["chunkCount"] = Len(ck.chunks)
        /\ 0 <= m.val["chunkIndex"] /\ m.val["chunkIndex"] < m.val["chunkCount"]
        /\ m.val["startChar"] <= m.val["endChar"]
        /\ m.val["endChar"] <= ck.len

(***************************************************************************)
(* Section chunks of the Markdown loader.                                  *)
(***************************************************************************)
\* C23: chunkBySection emits the chunks in the order of the sections and
\* numbers them across the sections: the k-th emitted chunk (from 0) has
\* chunkIndex k, so no two chunks of a document share a chunkIndex, whether
\* the sections are sub-chunked or not.
C23_GlobalChunkIndex ==
  Chunked({"MarkdownSections"}) =>
    /\ \A k \in 1..Len(ck.chunks) :
         /\ "chunkIndex" \in ck.chunks[k].metadata.has
         /\ ck.chunks[k].metadata.val["chunkIndex"] = k - 1
    /\ \A j, k \in 1..Len(ck.chunks) :
         j < k => /\ ck.chunks[j].section <= ck.chunks[k].section
                  /\ ck.chunks[j].metadata.val["chunkIndex"]
                       # ck.chunks[k].metadata.val["chunkIndex"]

(***************************************************************************)
(* Overlap of consecutive TextLoader chunks.  A chunk's content is a range *)
(* of the document; two ranges are the same text, for every content, when *)
(* they are the same range or both empty.                                  *)
(***************************************************************************)
LastChars(content, n) == [from |-> Max(content.from, content.to - n), to |-> content.to]
FirstChars(content, n) == [from |-> content.from, to |-> Min(content.from + n, content.to)]
SameText(r1, r2) == (r1.from = r1.to /\ r2.from = r2.to) \/ r1 = r2
FullWidth(chunk) == chunk.content.to - chunk.content.from = ck.chunkSize

OverlapKept(j) ==
  SameText(LastChars(ck.chunks[j].content, OrDefault(ck.overlap)),
           FirstChars(ck.chunks[j + 1].content, OrDefault(ck.overlap)))

\* C24 as stated: for every pair of consecutive chunks of a TextLoader
\* document chunked with overlap O, 0 <= O < chunkSize, the last O
\* characters of the first equal the first O characters of the second.
C24_OverlapAllPairs ==
  (Chunked({"TextLoader"}) /\ OverlapInRange) =>
    \A j \in 1..(Len(ck.chunks) - 1) : OverlapKept(j)

\* C24: for 0 <= O < chunkSize, the last O characters of a chunk equal the
\* first O characters of the next chunk whenever both chunks are full-width.
C24_OverlapFullWidth ==
  (Chunked({"TextLoader"}) /\ OverlapInRange) =>
    \A j \in 1..(Len(ck.chunks) - 1) :
      (FullWidth(ck.chunks[j]) /\ FullWidth(ck.chunks[j + 1])) => OverlapKept(j)

\* Two full-width chunks sharing a non-empty overlap, followed by a chunk
\* cut short by the end of the content.
C24_Witness ==
  /\ Chunked({"TextLoader"})
  /\ OverlapInRange
  /\ OrDefault(ck.overlap) > 0
  /\ Len(ck.chunks) >= 3
  /\ FullWidth(ck.chunks[1])
  /\ FullWidth(ck.chunks[2])
  /\ ~FullWidth(ck.chunks[3])

(***************************************************************************)
(* The order of the calls one ingest run makes.                            *)
(***************************************************************************)
Rank(c) == CASE c.call = "load" -> 0 [] c.call = "embed" -> 1 [] OTHER -> 2
CeilDiv(a, b) == (a + b - 1) \div b
RECURSIVE SumTexts(_)
SumTexts(cs) == IF cs = <<>> THEN 0 ELSE Head(cs).texts + SumTexts(Tail(cs))
PathCalls(p) == SelectSeq(ingest.calls, LAMBDA c : c.path = p)
EmbedCallsOf(p) == SelectSeq(ingest.calls, LAMBDA c : c.path = p /\ c.call = "embed")

\* C25: an ingest run with a batchSize of at least 1 calls its collaborators
\* path by path in list order: each path starts with its loader call,
\* embedder calls follow it, an addDocuments call is the last call of its
\* path, and the next call is then the loader call of the next path.  A
\* path that did not fail made one embedder call per batch, ceil(d /
\* batchSize) for d loaded documents, the l-th for the documents from
\* offset (l - 1) * batchSize with the texts of all their chunks, and then
\* exactly one addDocuments call, with the chunks of all its batches.  (A
\* path whose load, embed or progress callback throws makes no further
\* call.)
C25_CallOrder ==
  (ingest.pc # "idle" /\ ingest.batchSize >= 1) =>
    LET calls == ingest.calls
        b == ingest.batchSize
    IN /\ calls # <<>> => (calls[1].path = 1 /\ calls[1].call = "load")
       /\ \A k \in 1..(Len(calls) - 1) :
            \/ /\ calls[k + 1].path = calls[k].path
               /\ Rank(calls[k]) <= Rank(calls[k + 1])
               /\ calls[k + 1].call # "load"
               /\ calls[k].call # "addDocuments"
            \/ /\ calls[k + 1].path = calls[k].path + 1
               /\ calls[k + 1].call = "load"
       /\ \A p \in 1..Len(ingest.log) :
            ~ingest.log[p].failed =>
              LET mine == PathCalls(p)
                  embeds == EmbedCallsOf(p)
                  d == ingest.log[p].loaded
              IN /\ Len(embeds) = CeilDiv(d, b)
                 /\ \A l \in 1..Len(embeds) :
                      /\ embeds[l].j = (l - 1) * b
                      /\ Len(embeds[l].batch) = Min(b, d - embeds[l].j)
                      /\ embeds[l].texts = Len(chunkAll(embeds[l].batch, 1))
                 /\ Len(mine) = Len(embeds) + 2
                 /\ mine[Len(mine)].call = "addDocuments"
                 /\ mine[Len(mine)].texts = SumTexts(embeds)

\* A returned run over two paths with batchSize 1, neither failed: the
\* first loaded two documents and made two embedder calls, the second
\* loaded one document of two chunks and made one call with two texts.
C25_Witness ==
  /\ ingest.pc = "returned"
  /\ ingest.batchSize = 1
  /\ Len(ingest.log) = 2
  /\ ~ingest.log[1].failed /\ ~ingest.log[2].failed
  /\ ingest.log[1].loaded = 2
  /\ Len(EmbedCallsOf(1)) = 2
  /\ Len(EmbedCallsOf(2)) = 1
  /\ EmbedCallsOf(2)[1].texts = 2

(***************************************************************************)
(* Two ingest calls on one store.  JavaScript runs one call at a time; a   *)
(* call gives way only at an await: of loader.load, of processDocuments    *)
(* (the embedder) and of store.addDocuments.  The store methods hold no    *)
(* await, so each runs to its end once called.  A step of a run is the     *)
(* code from one await to the next.  Each of the two calls ingests one     *)
(* path with a batchSize its loop ends with, and no progress callback.     *)
(***************************************************************************)
RunIds == {1, 2}

ConcurrentBatchSizes == {NotGiven, Given(1)}

\* The store write of a run that puts its chunks into an empty map.
storeStepReplace(cfg, m, g) ==
  LET r == addDocuments(cfg, <<>>, g.allChunks)
      called == [g EXCEPT !.calls = Append(@, StoreCall(g))]
  IN [documents |-> r.documents,
      run |-> IF r.status = "ok"
                THEN nextPath([called EXCEPT !.totalChunks = @ + Len(g.allChunks)],
                              FALSE)
                ELSE catchError(called, r.status)]

\* The store write of a run among concurrent runs.
concurrentStore(cfg, m, g) == storeStep(cfg, m, g)

ConcurrentCall(r) ==
  /\ runs[r].pc = "idle"
  /\ \E path \in Paths, batchSize \in ConcurrentBatchSizes :
       runs' = [runs EXCEPT ![r] = startIngest(<<path>>, batchSize, FALSE)]
  /\ UNCHANGED <<config, documents, result, ck, ingest, process>>

ConcurrentLoad(r) ==
  /\ runs[r].pc = "path"
  /\ runs[r].i <= Len(runs[r].paths)
  /\ \E outcome \in LoadOutcomes(runs[r].paths[runs[r].i]) :
       runs' = [runs EXCEPT ![r] = loadStep(@, outcome)]
  /\ UNCHANGED <<config, documents, result, ck, ingest, process>>

ConcurrentBatch(r) ==
  /\ runs[r].pc = "batch"
  /\ runs[r].j < Len(runs[r].docs)
  /\ \E embedded \in EmbedOutcomes :
       runs' = [runs EXCEPT ![r] = batchIteration(@, embedded, FALSE)]
  /\ UNCHANGED <<config, documents, result, ck, ingest, process>>

ConcurrentStore(r) ==
  /\ runs[r].pc = "batch"
  /\ ~(runs[r].j < Len(runs[r].docs))
  /\ LET s == concurrentStore(config, documents, runs[r]) IN
       /\ documents' = s.documents
       /\ runs' = [runs EXCEPT ![r] = s.run]
  /\ UNCHANGED <<config, result, ck, ingest, process>>

ConcurrentReturn(r) ==
  /\ runs[r].pc = "path"
  /\ ~(runs[r].i <= Len(runs[r].paths))
  /\ runs' = [runs EXCEPT ![r].pc = "returned"]
  /\ UNCHANGED <<config, documents, result, ck, ingest, process>>

ConcurrentInit ==
  /\ config = [embeddingDimensions |-> 2, distanceMetric |-> "cosine"]
  /\ documents = <<>>
  /\ result = NoResult
  /\ ck = NoChunker
  /\ ingest = NoIngest
  /\ runs = NoRuns
  /\ process = NoProcess

ConcurrentNext ==
  \E r \in RunIds :
    \/ ConcurrentCall(r)
    \/ ConcurrentLoad(r)
    \/ ConcurrentBatch(r)
    \/ ConcurrentStore(r)
    \/ ConcurrentReturn(r)

ConcurrentSpec == ConcurrentInit /\ [][ConcurrentNext]_vars

BothReturned == \A r \in RunIds : runs[r].pc = "returned"
NoErrors == \A r \in RunIds : runs[r].errors = <<>>
DisjointIds == ChunkIds(runs[1].allChunks) \cap ChunkIds(runs[2].allChunks) = {}

\* The store after the chunks of `first`, then those of `second`, were
\* added to the empty store by two calls, one after the other.
OneAfterTheOther(first, second) ==
  addDocuments(config,
               addDocuments(config, <<>>, runs[first].allChunks).documents,
               runs[second].allChunks).documents

\* C26: when two interleaved ingest calls on one store have both returned
\* without an error and their chunk ids are disjoint, the store holds
\* every chunk of both runs and is the store that one of the two
\* sequential orders of the calls produces.
C26_NoLostUpdate ==
  (BothReturned /\ NoErrors /\ DisjointIds) =>
    /\ \A r \in RunIds :
         \A k \in 1..Len(runs[r].allChunks) :
           /\ MapHas(documents, runs[r].allChunks[k].id)
           /\ MapGet(documents, runs[r].allChunks[k].id) = runs[r].allChunks[k]
    /\ Len(documents) = Len(runs[1].allChunks) + Len(runs[2].allChunks)
    /\ documents \in {OneAfterTheOther(1, 2), OneAfterTheOther(2, 1)}

\* Both calls returned without an error, each stored two chunks, and the
\* call that loaded first stored last: run 2's chunks come first in the
\* map although run 1 made the first call of all.
C26_Witness ==
  /\ BothReturned /\ NoErrors /\ DisjointIds
  /\ Len(runs[1].allChunks) = 2
  /\ Len(runs[2].allChunks) = 2
  /\ documents = OneAfterTheOther(2, 1)
  /\ runs[1].paths # runs[2].paths

(***************************************************************************)
(* The store under every call that writes it, with updateDocument partials *)
(* that hold an id, and findSimilar over it.                               *)
(***************************************************************************)
\* { id: newId } as Partial<DocumentChunk>.
IdPartial(newId) ==
  [has |-> {"id"},
   val |-> [f \in ChunkFields |-> IF f = "id" THEN newId ELSE ""]]

\* addDocuments([chunk]) with a valid chunk.
AddOneDocument ==
  /\ result = NoResult
  /\ \E id \in Ids :
     \E embedding \in EmbeddingsOf(id) :
       LET batch == <<Chunk(id, "x", MetaOf(id), embedding)>>
           r == addDocuments(config, documents, batch)
       IN /\ documents' = r.documents
          /\ result' = [op |-> "addDocuments", status |-> r.status,
                        arg |-> batch, out |-> <<>>]
  /\ UNCHANGED <<config, ck, ingest, runs, process>>

\* updateDocument(id, { id: newId })
UpdateDocumentId ==
  /\ result = NoResult
  /\ \E id \in Ids, newId \in Ids :
       LET r == updateDocument(documents, id, IdPartial(newId)) IN
         /\ documents' = r.documents
         /\ result' = [op |-> "updateDocument", status |-> r.status,
                       arg |-> [id |-> id, update |-> IdPartial(newId)],
                       out |-> <<>>]
  /\ UNCHANGED <<config, ck, ingest, runs, process>>

IdentityInit ==
  /\ config = [embeddingDimensions |-> 2, distanceMetric |-> "cosine"]
  /\ documents = <<>>
  /\ result = NoResult
  /\ ck = NoChunker
  /\ ingest = NoIngest
  /\ runs = NoRuns
  /\ process = NoProcess

IdentityNext ==
  \/ AddOneDocument
  \/ UpdateDocumentId
  \/ DeleteDocuments
  \/ Clear
  \/ FindSimilar
  \/ Return

IdentitySpec == IdentityInit /\ [][IdentityNext]_vars

\* C27: when at least limit chunks other than X pass the filter, have an
\* embedding and score at least the threshold against X's embedding,
\* findSimilar(X) returns exactly limit results, all of them such chunks,
\* in rank order, and no such chunk left out scores more than a returned
\* one.
C27_LimitPlusOneSuffices ==
  (IsCall("findSimilar") /\ result.status = "ok") =>
    LET X == result.arg.documentId
        options == result.arg.options
        limit == LimitOf(options)
        q == MapGet(documents, X).embedding.v
        out == result.out.results
        others == {i \in Candidates(options.filter) :
                     /\ Stored(i).id # X
                     /\ ScoreAtLeast(config.distanceMetric, ScoreOf(q, i),
                                     options.threshold)}
    IN Cardinality(others) >= limit =>
         /\ Len(out) = limit
         /\ \A j \in 1..Len(out) :
              \E i \in others : /\ out[j].document = Stored(i)
                                /\ out[j].score = ScoreOf(q, i)
         /\ \A j, k \in 1..Len(out) : j < k => ScoreLeq(out[k].score, out[j].score)
         /\ \A i \in others : Stored(i).id \notin Returned(out) =>
              \A j \in 1..Len(out) : ScoreLeq(ScoreOf(q, i), out[j].score)

\* C28: in every state the store reaches through addDocuments,
\* updateDocument, deleteDocuments and clear, each entry is keyed by the id
\* of its chunk (getDocument(k).id = k), and no two stored chunks have the
\* same id.
C28_KeyedByOwnId ==
  /\ \A i \in StoredIndexes : getDocument(documents, documents[i].key).id = documents[i].key
  /\ \A i, j \in StoredIndexes : i # j => Stored(i).id # Stored(j).id

(***************************************************************************)
(* EmbeddingPipeline.process.  The call is in the loop (pc "batch") or    *)
(* suspended at its await of the embedder (pc "awaiting").  The loop       *)
(* variable i is kept exactly from 0 up; with a negative batchSize it      *)
(* falls without end, and every i below 0 is kept as -1: from there on     *)
(* every batch is the empty slice.  The embedder calls are counted up to   *)
(* MaxRounds.                                                              *)
(***************************************************************************)
MaxDocs == 3   \* documents per process call

\* options.batchSize: not given (32) or a number.
ProcessBatchSizes == BatchSizes \cup {Given(2)}

\* Convert documents to chunks.
processChunks(docs) ==
  [k \in 1..Len(docs) |->
     [id |-> docs[k].id,
      documentId |-> docs[k].id,
      content |-> docs[k].content,
      index |-> k - 1,
      metadata |-> Spread(MetaObj([chunkIndex |-> k - 1,
                                   chunkCount |-> Len(docs),
                                   startChar |-> 0,
                                   endChar |-> docs[k].content]),
                          docs[k].metadata),
      embedding |-> NoEmbedding]]

NoProgress == [called |-> FALSE, processed |-> 0, total |-> 0]

\* process(documents, options) up to the batch loop.
startProcess(docs, batchSize, onProgress) ==
  [pc |-> "batch",
   options |-> [batchSize |-> batchSize, onProgress |-> onProgress],
   batchSize |-> IF batchSize.given THEN batchSize.n ELSE DefaultBatchSize,
   chunks |-> processChunks(docs),
   i |-> 0, rounds |-> 0, lastProgress |-> NoProgress]

\* batch[j].embedding = embeddings[j] for the chunks of slice(i, i + batchSize)
assignEmbeddings(p, outcome) ==
  LET r == Slice(Len(p.chunks), p.i, p.i + p.batchSize)
      embeddings == embed(r.to - r.from, outcome)
  IN [k \in 1..Len(p.chunks) |->
        IF r.from < k /\ k <= r.to
          THEN [p.chunks[k] EXCEPT !.embedding =
                  IF k - r.from <= Len(embeddings) THEN embeddings[k - r.from]
                  ELSE NoEmbedding]
          ELSE p.chunks[k]]

\* options.onProgress(Math.min(i + batchSize, chunks.length), chunks.length)
reportProgress(p) ==
  IF p.options.onProgress
    THEN [called |-> TRUE,
          processed |-> Min(p.i + p.batchSize, Len(p.chunks)),
          total |-> Len(p.chunks)]
    ELSE p.lastProgress

\* i += batchSize
advance(p) == Max(p.i + p.batchSize, -1)

\* const embeddings = await this.embedder.embed(texts): the call is made.
callEmbedder(p) ==
  [p EXCEPT !.pc = "awaiting", !.rounds = Min(@ + 1, MaxRounds)]

\* The rest of an iteration of the batch loop, once the embedder call has
\* returned; the progress callback returns.
processIteration(p, outcome) ==
  [p EXCEPT !.pc = "batch",
            !.chunks = assignEmbeddings(p, outcome),
            !.lastProgress = reportProgress(p),
            !.i = advance(p)]

ProcessCall ==
  /\ process.pc = "idle"
  /\ \E n \in 0..MaxDocs, batchSize \in ProcessBatchSizes, onProgress \in BOOLEAN :
       process' = startProcess([k \in 1..n |-> Doc(k, 1)], batchSize, onProgress)
  /\ UNCHANGED <<config, documents, result, ck, ingest, runs>>

\* The loop condition holds: the batch is cut and the embedder is called.
ProcessEmbed ==
  /\ process.pc = "batch"
  /\ process.i < Len(process.chunks)
  /\ process' = callEmbedder(process)
  /\ UNCHANGED <<config, documents, result, ck, ingest, runs>>

\* The embedder call returns: the iteration runs to its end.
ProcessBatch ==
  /\ process.pc = "awaiting"
  /\ \E outcome \in {"vectors", "short"} :
       process' = processIteration(process, outcome)
  /\ UNCHANGED <<config, documents, result, ck, ingest, runs>>

\* The embedder call, or the progress callback after it, throws: process
\* rejects.
ProcessThrow ==
  /\ process.pc = "awaiting"
  /\ \E progressThrows \in {FALSE, process.options.onProgress} :
       process' = [process EXCEPT
                     !.pc = "threw",
                     !.chunks = IF progressThrows
                                  THEN assignEmbeddings(process, "vectors") ELSE @]
  /\ UNCHANGED <<config, documents, result, ck, ingest, runs>>

\* return chunks
ProcessReturn ==
  /\ process.pc = "batch"
  /\ ~(process.i < Len(process.chunks))
  /\ process' = [process EXCEPT !.pc = "returned"]
  /\ UNCHANGED <<config, documents, result, ck, ingest, runs>>

\* The caller takes the settled promise.
ProcessTaken ==
  /\ process.pc \in {"returned", "threw"}
  /\ process' = NoProcess
  /\ UNCHANGED <<config, documents, result, ck, ingest, runs>>

ProcessInit ==
  /\ config = [embeddingDimensions |-> 2, distanceMetric |-> "cosine"]
  /\ documents = <<>>
  /\ result = NoResult
  /\ ck = NoChunker
  /\ ingest = NoIngest
  /\ runs = NoRuns
  /\ process = NoProcess

ProcessNext ==
  \/ ProcessCall
  \/ ProcessEmbed
  \/ ProcessBatch
  \/ ProcessThrow
  \/ ProcessReturn
  \/ ProcessTaken

ProcessSpec == ProcessInit /\ [][ProcessNext]_vars

\* The loop runs to its next await or to the return, and an embedder call
\* that has returned resumes the loop.
ProcessLive ==
  /\ ProcessSpec
  /\ WF_vars(ProcessEmbed)
  /\ WF_vars(ProcessBatch)
  /\ WF_vars(ProcessReturn)

\* C29: for every document list and every batchSize, process returns (or
\* rejects with the embedder's or the callback's error) once its embedder
\* calls return; when it returns it has made ceil(n / batchSize) embedder
\* calls, and its last onProgress call reported processed = total.
C29_BatchLoopTerminates ==
  /\ [](process.pc = "returned" =>
          LET n == Len(process.chunks) IN
            /\ n > 0 => /\ process.batchSize >= 1
                        /\ process.rounds = CeilDiv(n, process.batchSize)
            /\ (n > 0 /\ process.options.onProgress) =>
                 process.lastProgress = [called |-> TRUE, processed |-> n, total |-> n])
  /\ (process.pc \in {"batch", "awaiting"}) ~> (process.pc \in {"returned", "threw"})

(***************************************************************************)
(* Ingesting a path again.                                                 *)
(***************************************************************************)
IsPrefix(p, s) == Len(p) <= Len(s) /\ SubSeq(s, 1, Len(p)) = p

\* The ids of the stored chunks of the document loaded from path.
StoredChunksOf(path) == {id \in MapKeys(documents) : IsPrefix(generateId(path), id)}

\* C30: after a path was ingested a second time, both times without an
\* error, the chunks in the store that belong to the path's document are
\* exactly the chunks of the second load.
C30_ReingestReplaces ==
  Ingesting =>
    \A k, l \in 1..Len(ingest.log) :
      (/\ k < l
       /\ l = Len(ingest.log)
       /\ ingest.paths[k] = ingest.paths[l]
       /\ ~ingest.log[k].failed
       /\ ~ingest.log[l].failed)
      => StoredChunksOf(ingest.paths[l]) = ingest.log[l].chunks

====
